---- MODULE Spec2Model ----
(***************************************************************************)
(* A model of the Kupmios provider (src/src/provider/kupmios.ts): the      *)
(* Cloudflare-Access session kept in cfAuthorizationCookie, the HTTP calls *)
(* to Kupo, the one-shot WebSocket calls to Ogmios, the normalisation of   *)
(* Kupo matches into UTxOs and the awaitTx poller.                         *)
(*                                                                         *)
(* Every action is one run-to-completion step of the JavaScript event      *)
(* loop: the code between two suspension points (await, event callback,    *)
(* timer callback).                                                        *)
(***************************************************************************)
EXTENDS Integers, Sequences, FiniteSets, TLC

\* ------------------------------------------------------------ bounds
\* Number of concurrent provider calls in the session/bridge specification.
MaxTasks == 2
\* Longest list of output references given to getUtxosByOutRef.
MaxOutRefs == 2
\* Most matches in one answer of Kupo.
MaxMatches == 2
\* Most polls one awaitTx call issues before the model stops its timer ticks.
MaxPolls == 3
\* The clock advances in steps of TimeStep milliseconds up to MaxTime.
TimeStep == 1000
MaxTime == 8000
\* A check interval shorter than the default one, in milliseconds.
ShortInterval == 1000
\* Symbols of a policy id (56 hex digits in a real unit) and the most symbols
\* of an asset name in the units the model draws.
PolicyIdLength == 2
MaxNameLength == 2

Tasks == 1..MaxTasks

\* ------------------------------------------------------------ values
\* JavaScript null / undefined.
Null == [kind |-> "null"]
Undefined == [kind |-> "undefined"]

\* The literal text "CF_Authorization=" is one symbol of a header string.
CFA == "CF_Authorization="

\* A JavaScript string, as the sequence of its symbols.
Str(s) == [kind |-> "string", s |-> s]

\* Errors a call can fail with.
TransportError == [kind |-> "TransportError"]
TypeError == [kind |-> "TypeError"]
SyntaxError == [kind |-> "SyntaxError"]

VARIABLES
    cfAuthorizationCookie,  \* Kupmios.cfAuthorizationCookie: Null or a string
    clientId,               \* constructor parameter clientId
    clientSecret,           \* constructor parameter clientSecret
    calls,                  \* the provider calls in flight, one per task
    conns,                  \* every WebSocket created by rpc, in creation order
    query,                  \* a UTxO query in flight and the state of its fetches
    now,                    \* the clock of the event loop, in milliseconds
    kupoTx,                 \* whether Kupo sees an unspent output of the awaited transaction
    poller                  \* an awaitTx call: its interval timer, polls and promise

pollVars == <<now, kupoTx, poller>>
vars == <<cfAuthorizationCookie, clientId, clientSecret, calls, conns, query, pollVars>>

\* ------------------------------------------------------------ promises
Pending == [state |-> "pending", value |-> Undefined]
Resolved(v) == [state |-> "resolved", value |-> v]
Rejected(e) == [state |-> "rejected", value |-> e]

\* ------------------------------------------------------------ AuthSession
\* getAuthHeaders: the Headers object, as a set of <<name, value>> pairs.
getAuthHeaders ==
    IF cfAuthorizationCookie # Null
    THEN {<<"Cookie", <<CFA>> \o cfAuthorizationCookie.s>>}
    ELSE {<<"CF-Access-Client-Id", clientId>>,
          <<"CF-Access-Client-Secret", clientSecret>>}

HeaderNames(headers) == {h[1] : h \in headers}

\* The Set-Cookie values a response can carry: Undefined when the header is
\* absent, else the header text.
SetCookieHeaders ==
    { Undefined,
      Str(<<>>),
      Str(<<"sid=", "x">>),
      Str(<<CFA>>),
      Str(<<CFA, ";">>),
      Str(<<CFA, "a">>),
      Str(<<CFA, "b", ";", "Path=/">>),
      Str(<<"sid=", "x", ";", CFA, "a", ";", "b">>) }

\* cookieHeader.match(/CF_Authorization=([^;]+)/): the positions where the
\* literal is followed by at least one symbol other than ";".
MatchStarts(h) == {i \in 1..(Len(h) - 1) : h[i] = CFA /\ h[i + 1] # ";"}

\* match[1]: the longest run without ";" after the leftmost match.
MatchGroup(h) ==
    LET i == CHOOSE k \in MatchStarts(h) : \A m \in MatchStarts(h) : k <= m
        j == CHOOSE k \in (i + 1)..Len(h) :
                 /\ \A m \in (i + 1)..k : h[m] # ";"
                 /\ (k = Len(h) \/ h[k + 1] = ";")
    IN  SubSeq(h, i + 1, j)

\* Lines 64-72 without the match: any Set-Cookie text is stored.
CookieAfterResponse_AnySetCookie(cookie, setCookie) ==
    IF setCookie = Undefined THEN cookie
    ELSE IF setCookie.s = <<>> THEN cookie
    ELSE setCookie

\* authenticatedFetch, lines 64-72: the cookie after a response was seen.
CookieAfterResponse(cookie, setCookie) ==
    IF setCookie = Undefined THEN cookie          \* !headers.has("Set-Cookie")
    ELSE IF setCookie.s = <<>> THEN cookie        \* if (cookieHeader): "" is falsy
    ELSE IF MatchStarts(setCookie.s) = {} THEN cookie
    ELSE Str(MatchGroup(setCookie.s))

\* ------------------------------------------------------------ getDatum
DatumHashes == {"dh1", "dh2"}

\* What `GET /datums/{hash}` can answer once parsed by res.json(): null, an
\* object without datum, an object with an empty or a non-empty datum; or
\* text that res.json() cannot parse.
Object(d) == [kind |-> "object", datum |-> d]
Malformed == [kind |-> "malformed"]
DatumBodies ==
    {Null, Object(Undefined), Object(Str(<<>>)), Object(Str(<<"d1">>)), Malformed}

\* JavaScript falsiness of the values the model uses.
Falsy(v) == v \in {Null, Undefined, Str(<<>>)}

NoDatumError(datumHash) ==
    [kind |-> "Error", message |-> <<"No datum found for datum hash: ", datumHash>>]

\* getDatum with the test of line 233 reduced to `!result`.
getDatum_OnlyNullCheck(datumHash, result) ==
    IF Falsy(result)
    THEN Rejected(NoDatumError(datumHash))
    ELSE Resolved(result.datum)

\* getDatum, lines 233-236, applied to the parsed body `result`.
getDatum(datumHash, result) ==
    IF Falsy(result) \/ Falsy(result.datum)
    THEN Rejected(NoDatumError(datumHash))
    ELSE Resolved(result.datum)

\* `.then((res) => res.json())` followed by the rest of getDatum.
getDatumSettle(datumHash, body) ==
    IF body = Malformed THEN Rejected(SyntaxError) ELSE getDatum(datumHash, body)

\* ------------------------------------------------------------ node bridge
BridgeOps == {"getProtocolParameters", "getDelegation", "submitTx"}

\* JSON.parse(msg.data): text that does not parse, or an object with the
\* fields result and error (Undefined when the field is missing).
Json(result, error) == [kind |-> "json", result |-> result, error |-> error]

ErrorPayload == [kind |-> "rpcError", code |-> 3005]
ParamsResult == [kind |-> "protocolParameters"]
TxResult(id) == [kind |-> "submitted", transaction |-> [id |-> id]]
\* rewardAccountSummaries: Object.values(result), in key order.
Summaries(entries) == [kind |-> "summaries", entries |-> entries]
Entry(pool, lovelace) ==
    [delegate |-> [id |-> pool], rewards |-> [ada |-> [lovelace |-> lovelace]]]

Results(op) ==
    CASE op = "getProtocolParameters" -> {ParamsResult}
      [] op = "getDelegation" ->
            {Summaries(<<>>), Summaries(<<Entry("pool1", 0)>>),
             Summaries(<<Entry("pool1", 7)>>)}
      [] op = "submitTx" -> {TxResult("tx1")}

Messages(op) ==
    {Malformed}
      \cup {Json(r, Undefined) : r \in Results(op) \cup {Null, Undefined}}
      \cup {Json(Undefined, ErrorPayload)}

AllMessages == UNION {Messages(op) : op \in BridgeOps}

\* The outcome of a message handler: how the call's promise settles and
\* whether client.close() was reached.
Handled(outcome, closed) == [outcome |-> outcome, closed |-> closed]

\* getProtocolParameters, lines 82-121. result.plutusCostModels on a missing
\* result throws a TypeError, which the catch turns into rej(e).
onProtocolParameters(msg) ==
    IF msg = Malformed THEN Handled(Rejected(SyntaxError), FALSE)
    ELSE IF msg.result \in {Null, Undefined}
         THEN Handled(Rejected(TypeError), FALSE)
         ELSE Handled(Resolved([kind |-> "ProtocolParameters", from |-> msg.result]), TRUE)

\* getDelegation, lines 208-223.
onDelegation(msg) ==
    IF msg = Malformed THEN Handled(Rejected(SyntaxError), FALSE)
    ELSE IF Falsy(msg.result)
         \* delegation = {}: delegation?.delegate is undefined, and .id throws
         THEN Handled(Rejected(TypeError), FALSE)
    ELSE IF msg.result.entries = <<>>
         \* delegation = undefined: both optional chains short-circuit
         THEN Handled(Resolved([kind |-> "Delegation", poolId |-> Null, rewards |-> 0]), TRUE)
    ELSE LET delegation == msg.result.entries[1]
         IN  Handled(Resolved([kind |-> "Delegation",
                               poolId |-> Str(<<delegation.delegate.id>>),
                               rewards |-> delegation.rewards.ada.lovelace]), TRUE)

\* submitTx, lines 262-271.
onSubmitTx(msg) ==
    IF msg = Malformed THEN Handled(Rejected(SyntaxError), FALSE)
    ELSE IF ~Falsy(msg.result)
         THEN Handled(Resolved(Str(<<msg.result.transaction.id>>)), TRUE)
         ELSE Handled(Rejected(msg.error), TRUE)

onMessage(op, msg) ==
    CASE op = "getProtocolParameters" -> onProtocolParameters(msg)
      [] op = "getDelegation" -> onDelegation(msg)
      [] op = "submitTx" -> onSubmitTx(msg)

\* ------------------------------------------------------------ calls
\* A call that has not been made yet. headers is the local variable of
\* authenticatedFetch / rpc, dead once the request has been issued; body is
\* the parsed response or message the call settled on.
NoCall ==
    [op |-> "none", arg |-> "", pc |-> "idle", headers |-> {},
     body |-> Undefined, client |-> 0, outcome |-> Pending]

\* awaitTx has not been called yet.
NoPoller ==
    [checkInterval |-> 0, active |-> FALSE, nextTick |-> 0, polls |-> <<>>,
     clears |-> 0, promise |-> Pending, resolvedAt |-> 0]

\* No UTxO query has been made yet.
NoQuery == [op |-> "none", arg |-> "", outRefs |-> <<>>, slots |-> <<>>, outcome |-> Pending]

\* Lines 326-338 with client.send before the wait for "open".
NewSocket_SendBeforeOpen(t) == [owner |-> t, state |-> "connecting", sent |-> 1]

\* A WebSocket: the call that created it, its readyState and the number of
\* requests sent on it.
NewSocket(t) == [owner |-> t, state |-> "connecting", sent |-> 0]

Init ==
    /\ cfAuthorizationCookie = Null
    /\ clientId = "id"
    /\ clientSecret = "secret"
    /\ calls = [t \in Tasks |-> NoCall]
    /\ conns = <<>>
    /\ query = NoQuery
    /\ now = 0
    /\ kupoTx = FALSE
    /\ poller = NoPoller

\* Calls are numbered in the order in which they are made.
NextTask(t) ==
    /\ calls[t].pc = "idle"
    /\ \A u \in Tasks : u < t => calls[u].pc # "idle"

\* A caller invokes getDatum(datumHash): authenticatedFetch runs up to
\* `await this.getAuthHeaders()`, which has already built the headers.
CallGetDatum(t, datumHash) ==
    /\ NextTask(t)
    /\ calls' = [calls EXCEPT ![t] =
                    [@ EXCEPT !.op = "getDatum", !.arg = datumHash,
                              !.headers = getAuthHeaders, !.pc = "awaitHeaders"]]
    /\ UNCHANGED <<cfAuthorizationCookie, clientId, clientSecret, conns, query, pollVars>>

\* authenticatedFetch resumes after the await and calls fetch with the
\* headers built before it (line 58).
FetchSend(t) ==
    /\ calls[t].op = "getDatum"
    /\ calls[t].pc = "awaitHeaders"
    /\ calls' = [calls EXCEPT ![t] = [@ EXCEPT !.headers = {}, !.pc = "awaitFetch"]]
    /\ UNCHANGED <<cfAuthorizationCookie, clientId, clientSecret, conns, query, pollVars>>

\* fetch resolves: lines 64-73 store the cookie; the body then goes through
\* res.json() and the rest of getDatum, which touch nothing but the call.
FetchResponse(t, setCookie, body) ==
    /\ calls[t].pc = "awaitFetch"
    /\ cfAuthorizationCookie' = CookieAfterResponse(cfAuthorizationCookie, setCookie)
    /\ calls' = [calls EXCEPT ![t] =
                    [@ EXCEPT !.body = body,
                              !.outcome = getDatumSettle(calls[t].arg, body),
                              !.pc = "done"]]
    /\ UNCHANGED <<clientId, clientSecret, conns, query, pollVars>>

\* fetch rejects (a transport failure): nothing catches it.
FetchFail(t) ==
    /\ calls[t].pc = "awaitFetch"
    /\ calls' = [calls EXCEPT ![t] =
                    [@ EXCEPT !.outcome = Rejected(TransportError), !.pc = "done"]]
    /\ UNCHANGED <<cfAuthorizationCookie, clientId, clientSecret, conns, query, pollVars>>

\* A caller invokes a node-bridge operation: rpc runs up to
\* `await this.getAuthHeaders()` (line 325).
CallRpc(t, op) ==
    /\ NextTask(t)
    /\ calls' = [calls EXCEPT ![t] =
                    [@ EXCEPT !.op = op, !.headers = getAuthHeaders, !.pc = "awaitHeaders"]]
    /\ UNCHANGED <<cfAuthorizationCookie, clientId, clientSecret, conns, query, pollVars>>

\* rpc resumes: new WebSocket(ogmiosUrl, {headers}) with the headers built
\* before the await, then waits for "open" (lines 326-331).
RpcConnect(t) ==
    /\ calls[t].op \in BridgeOps
    /\ calls[t].pc = "awaitHeaders"
    /\ conns' = Append(conns, NewSocket(t))
    /\ calls' = [calls EXCEPT ![t] =
                    [@ EXCEPT !.headers = {}, !.client = Len(conns) + 1,
                              !.pc = "awaitOpen"]]
    /\ UNCHANGED <<cfAuthorizationCookie, clientId, clientSecret, query, pollVars>>

\* "open" fires: rpc sends the request and returns the client, and the
\* operation registers its once-only message listener (lines 332-339).
RpcOpen(t) ==
    /\ calls[t].pc = "awaitOpen"
    /\ conns[calls[t].client].state = "connecting"
    /\ conns' = [conns EXCEPT ![calls[t].client] =
                    [@ EXCEPT !.state = "open", !.sent = @ + 1]]
    /\ calls' = [calls EXCEPT ![t] = [@ EXCEPT !.pc = "awaitMessage"]]
    /\ UNCHANGED <<cfAuthorizationCookie, clientId, clientSecret, query, pollVars>>

\* The connection fails before it opens: rpc listens for "open" only, so
\* the promise of line 329 never settles and neither does the call.
RpcConnectFail(t) ==
    /\ calls[t].pc = "awaitOpen"
    /\ conns[calls[t].client].state = "connecting"
    /\ conns' = [conns EXCEPT ![calls[t].client] = [@ EXCEPT !.state = "failed"]]
    /\ UNCHANGED <<cfAuthorizationCookie, clientId, clientSecret, calls, query, pollVars>>

\* The first message arrives and the operation's listener handles it.
RpcMessage(t, msg) ==
    /\ calls[t].pc = "awaitMessage"
    /\ conns[calls[t].client].state = "open"
    /\ msg \in Messages(calls[t].op)
    /\ LET h == onMessage(calls[t].op, msg)
       IN  /\ calls' = [calls EXCEPT ![t] =
                           [@ EXCEPT !.body = msg, !.outcome = h.outcome, !.pc = "done"]]
           /\ conns' = [conns EXCEPT ![calls[t].client] =
                           [@ EXCEPT !.state = IF h.closed THEN "closed" ELSE @]]
    /\ UNCHANGED <<cfAuthorizationCookie, clientId, clientSecret, query, pollVars>>

\* The bridge drops an open connection: no listener is registered for
\* "close" or "error", so a call still waiting for its message stays pending.
RpcDrop(t) ==
    /\ calls[t].pc = "awaitMessage"
    /\ conns[calls[t].client].state = "open"
    /\ conns' = [conns EXCEPT ![calls[t].client] = [@ EXCEPT !.state = "failed"]]
    /\ UNCHANGED <<cfAuthorizationCookie, clientId, clientSecret, calls, query, pollVars>>

Next ==
    \E t \in Tasks :
        \/ \E h \in DatumHashes : CallGetDatum(t, h)
        \/ FetchSend(t)
        \/ \E c \in SetCookieHeaders, b \in DatumBodies : FetchResponse(t, c, b)
        \/ FetchFail(t)
        \/ \E op \in BridgeOps : CallRpc(t, op)
        \/ RpcConnect(t)
        \/ RpcOpen(t)
        \/ RpcConnectFail(t)
        \/ \E m \in AllMessages : RpcMessage(t, m)
        \/ RpcDrop(t)

Spec == Init /\ [][Next]_vars

\* ------------------------------------------------------------ Kupo matches
TxHashes == {"h1", "h2"}

\* A raw match of `GET /matches/...?unspent`. JSON null is Null; strings are
\* Str values; output_index is a JSON number.
Match(tx, ix, dtype, dhash, shash) ==
    [transaction_id |-> tx, output_index |-> ix, address |-> "addr1",
     value |-> [coins |-> 2, assets |-> {<<<<"p1", ".", "n1">>, 1>>}],
     datum_type |-> dtype, datum_hash |-> dhash, script_hash |-> shash]

\* The unspent outputs Kupo may know, in the order in which it lists them.
\* Kupo gives a datum_hash exactly when it gives a datum_type.
KupoMatches ==
    << Match("h1", 0, Null, Null, Null),
       Match("h1", 1, Str(<<"inline">>), Str(<<"dh1">>), Null),
       Match("h2", 0, Str(<<"hash">>), Str(<<"dh2">>), Str(<<"sh1">>)),
       Match("h2", 1, Str(<<"inline">>), Str(<<"dh2">>), Str(<<"sh1">>)) >>

\* The sub-lists of KupoMatches that keep the positions in `keep`.
RECURSIVE Pick(_, _)
Pick(keep, n) ==
    IF n = 0 THEN <<>>
    ELSE IF n \in keep THEN Append(Pick(keep, n - 1), KupoMatches[n])
    ELSE Pick(keep, n - 1)

SubLists(positions, maxLen) ==
    {Pick(keep, Len(KupoMatches)) :
        keep \in {k \in SUBSET positions : Cardinality(k) <= maxLen}}

\* parseInt(utxo.output_index): output_index is a JSON natural number, whose
\* decimal text parses back to the same number.
ParseInt(n) == n

\* unit.replace(".", ""): the first "." of the unit is removed.
RemoveFirstDot(unit) ==
    IF \E i \in DOMAIN unit : unit[i] = "."
    THEN LET i == CHOOSE k \in DOMAIN unit :
                     unit[k] = "." /\ \A m \in 1..(k - 1) : unit[m] # "."
         IN  SubSeq(unit, 1, i - 1) \o SubSeq(unit, i + 1, Len(unit))
    ELSE unit

\* Lines 286-292: lovelace and every listed asset under its joined unit.
Assets(value) ==
    {<<<<"lovelace">>, value.coins>>}
        \cup {<<RemoveFirstDot(a[1]), a[2]>> : a \in value.assets}

\* What `GET /scripts/{hash}` can answer once parsed.
Script(language) == [kind |-> "script", script |-> "5e", language |-> language]
ScriptBodies ==
    {Script("native"), Script("plutus:v1"), Script("plutus:v2"), Script("plutus:v3"),
     Null, Malformed}

\* toHex(C.PlutusScript.new(fromHex(script)).to_bytes()): the script wrapped
\* by the external library.
Reencode(script) == <<"PlutusScript", script>>

\* Lines 300-318, applied to the parsed script body. Destructuring null
\* throws a TypeError; an unknown language falls off the end of the function.
scriptRef(body) ==
    IF body = Malformed THEN Rejected(SyntaxError)
    ELSE IF body = Null THEN Rejected(TypeError)
    ELSE IF body.language = "native"
         THEN Resolved([kind |-> "Script", type |-> "Native", script |-> <<body.script>>])
    ELSE IF body.language = "plutus:v1"
         THEN Resolved([kind |-> "Script", type |-> "PlutusV1", script |-> Reencode(body.script)])
    ELSE IF body.language = "plutus:v2"
         THEN Resolved([kind |-> "Script", type |-> "PlutusV2", script |-> Reencode(body.script)])
    ELSE Resolved(Undefined)

\* ------------------------------------------------------------ kupmiosUtxosToUtxos
\* One element of the Promise.all of line 280: the raw match, the UTxO under
\* construction and where its async function stands.
\*   "datum"  waiting for getDatum (line 296)
\*   "script" waiting for the script fetch (line 301)
\*   "done"   fulfilled with utxo;  "failed"  rejected with error
Rec(raw, stage, utxo, error) ==
    [raw |-> raw, stage |-> stage, utxo |-> utxo, error |-> error]

\* The scriptRef field is reached: `utxo.script_hash && (await ...)`.
ToScriptStage(raw, utxo) ==
    IF Falsy(raw.script_hash)
    THEN Rec(raw, "done", [utxo EXCEPT !.scriptRef = raw.script_hash], Undefined)
    ELSE Rec(raw, "script", utxo, Undefined)

\* Line 293 without the test of datum_type.
DatumHashField_Unconditional(raw) == raw.datum_hash

\* The datumHash field, line 293.
DatumHashField(raw) ==
    IF raw.datum_type = Str(<<"hash">>) THEN raw.datum_hash ELSE Null

\* The async function of line 281 up to its first await.
StartRecord(raw) ==
    LET utxo == [txHash |-> raw.transaction_id,
                 outputIndex |-> ParseInt(raw.output_index),
                 address |-> raw.address,
                 assets |-> Assets(raw.value),
                 datumHash |-> DatumHashField(raw),
                 datum |-> Undefined,
                 scriptRef |-> Undefined]
    IN  IF raw.datum_type = Str(<<"inline">>)
        THEN Rec(raw, "datum", utxo, Undefined)
        ELSE ToScriptStage(raw, [utxo EXCEPT !.datum = Null])

\* Line 295 with a failed getDatum replaced by a null datum.
AfterDatum_DefaultNull(rec, settled) ==
    IF settled.state = "rejected"
    THEN [ToScriptStage(rec.raw, [rec.utxo EXCEPT !.datum = Null])
             EXCEPT !.error = settled.value]
    ELSE ToScriptStage(rec.raw, [rec.utxo EXCEPT !.datum = settled.value])

\* getDatum(utxo.datum_hash) has settled.
AfterDatum(rec, settled) ==
    IF settled.state = "rejected"
    THEN Rec(rec.raw, "failed", rec.utxo, settled.value)
    ELSE ToScriptStage(rec.raw, [rec.utxo EXCEPT !.datum = settled.value])

\* The script fetch has settled.
AfterScript(rec, settled) ==
    IF settled.state = "rejected"
    THEN Rec(rec.raw, "failed", rec.utxo, settled.value)
    ELSE Rec(rec.raw, "done", [rec.utxo EXCEPT !.scriptRef = settled.value], Undefined)

\* Line 280 with the async functions started over the reversed list.
kupmiosUtxosToUtxos_Reversed(utxos) ==
    [i \in DOMAIN utxos |-> StartRecord(utxos[Len(utxos) + 1 - i])]

\* kupmiosUtxosToUtxos up to the first awaits: `(utxos as any).map(async ...)`.
kupmiosUtxosToUtxos(utxos) == [i \in DOMAIN utxos |-> StartRecord(utxos[i])]

\* Promise.all over the records: fulfilled, in input order, once all are.
AllDone(recs) == \A i \in DOMAIN recs : recs[i].stage = "done"
Utxos(recs) == [i \in DOMAIN recs |-> recs[i].utxo]

\* ------------------------------------------------------------ UTxO queries
Array(items) == [kind |-> "array", items |-> items]

NftError ==
    [kind |-> "Error",
     message |-> <<"Unit needs to be an NFT or only held by one address.">>]

\* One `GET /matches/{pattern}?unspent` of a query and the normalisation of
\* its answer: "fetch" while the request is out, then "norm"; error is the
\* rejection of the slot's promise, Undefined while there is none.
Slot(pattern) ==
    [pattern |-> pattern, state |-> "fetch", matches |-> <<>>, recs |-> <<>>,
     error |-> Undefined]

\* The output references a caller may ask for.
OutRefs == {<<"h1", 0>>, <<"h1", 1>>, <<"h2", 1>>}
\* Asset units: a policy id followed by a possibly empty asset name, as
\* sequences of hex digits.
HexDigits == {"a", "b", "c"}
AllUnits ==
    UNION {[1..n -> HexDigits] : n \in PolicyIdLength..(PolicyIdLength + MaxNameLength)}
\* The units the UTxO queries are made with: a policy id alone, and one with
\* a one-digit asset name.
Units == {u \in AllUnits : Len(u) <= PolicyIdLength + 1 /\ \A i \in DOMAIN u : u[i] = "a"}

\* fromUnit (utils): policyId = unit.slice(0, 56),
\* assetName = unit.slice(56) || null.
fromUnit(unit) ==
    LET cut == IF Len(unit) < PolicyIdLength THEN Len(unit) ELSE PolicyIdLength
        name == SubSeq(unit, cut + 1, Len(unit))
    IN  [policyId |-> SubSeq(unit, 1, cut),
         assetName |-> IF name = <<>> THEN Null ELSE Str(name)]

\* Lines 162-164 with the asset name always replaced by the wildcard.
matchPattern_AlwaysWildcard(unit) == fromUnit(unit).policyId \o <<".", "*">>

\* Lines 162-164: `${policyId}.${assetName ? `${assetName}` : "*"}`.
matchPattern(unit) ==
    LET parts == fromUnit(unit)
    IN  parts.policyId \o <<".">>
            \o (IF Falsy(parts.assetName) THEN <<"*">> ELSE parts.assetName.s)
Addresses == {"addr1"}

\* [...new Set(xs)]: the distinct elements, in order of first occurrence.
RECURSIVE Dedup(_)
Dedup(xs) ==
    IF xs = <<>> THEN <<>>
    ELSE LET front == Dedup(SubSeq(xs, 1, Len(xs) - 1))
             last == xs[Len(xs)]
         IN  IF \E i \in DOMAIN front : front[i] = last THEN front ELSE Append(front, last)

\* Line 177 without the Set: one entry per output reference.
queryHashes_NoDedup(outRefs) == [i \in DOMAIN outRefs |-> outRefs[i][1]]

\* Line 177.
queryHashes(outRefs) == Dedup([i \in DOMAIN outRefs |-> outRefs[i][1]])

\* utxos.reduce((acc, utxos) => acc.concat(utxos), []), line 189.
RECURSIVE Concat(_)
Concat(lists) ==
    IF lists = <<>> THEN <<>>
    ELSE Concat(SubSeq(lists, 1, Len(lists) - 1)) \o lists[Len(lists)]

\* The test of lines 190-195.
Requested(outRefs, utxo) ==
    \E i \in DOMAIN outRefs :
        utxo.txHash = outRefs[i][1] /\ utxo.outputIndex = outRefs[i][2]

\* .filter(...), lines 190-196.
RECURSIVE FilterRequested(_, _)
FilterRequested(outRefs, utxos) ==
    IF utxos = <<>> THEN <<>>
    ELSE LET front == FilterRequested(outRefs, SubSeq(utxos, 1, Len(utxos) - 1))
             last == utxos[Len(utxos)]
         IN  IF Requested(outRefs, last) THEN Append(front, last) ELSE front

SlotFulfilled(slot) == slot.state = "norm" /\ slot.error = Undefined /\ AllDone(slot.recs)
SlotRejected(slot) == slot.error # Undefined

\* Lines 188-196: the value getUtxosByOutRef returns.
getUtxosByOutRef(outRefs, slots) ==
    Resolved(Array(FilterRequested(outRefs,
        Concat([i \in DOMAIN slots |-> Utxos(slots[i].recs)]))))

\* Lines 169-173 with the test `utxos.length !== 1`.
getUtxoByUnit_ExactlyOne(utxos) ==
    IF Len(utxos) # 1 THEN Rejected(NftError) ELSE Resolved(utxos[1])

\* Lines 169-173 with the test `utxos.length > 2`.
getUtxoByUnit_OffByOne(utxos) ==
    IF Len(utxos) > 2 THEN Rejected(NftError)
    ELSE IF Len(utxos) >= 1 THEN Resolved(utxos[1])
    ELSE Resolved(Undefined)

\* Lines 169-173: the outcome of getUtxoByUnit once normalisation is done.
getUtxoByUnit(utxos) ==
    IF Len(utxos) > 1 THEN Rejected(NftError)
    ELSE IF Len(utxos) = 1 THEN Resolved(utxos[1])
    ELSE Resolved(Undefined)

\* Line 137 / 156.
getUtxos(utxos) == Resolved(Array(utxos))

\* The promise of the query, given its slots: rejected with the rejection of
\* a slot, fulfilled once every slot is, pending otherwise.
Settle(op, outRefs, slots) ==
    IF \E i \in DOMAIN slots : SlotRejected(slots[i])
    THEN Rejected(slots[CHOOSE i \in DOMAIN slots : SlotRejected(slots[i])].error)
    ELSE IF \A i \in DOMAIN slots : SlotFulfilled(slots[i])
    THEN CASE op = "getUtxosByOutRef" -> getUtxosByOutRef(outRefs, slots)
           [] op = "getUtxoByUnit" -> getUtxoByUnit(Utxos(slots[1].recs))
           [] op = "getUtxos" -> getUtxos(Utxos(slots[1].recs))
    ELSE Pending

\* The query after its slots changed: a settled promise stays as it is.
WithSlots(slots) ==
    [query EXCEPT !.slots = slots,
                  !.outcome = IF query.outcome.state = "pending"
                              THEN Settle(query.op, query.outRefs, slots)
                              ELSE @]

\* A slot after one of its records changed: the first record that fails
\* rejects the Promise.all of line 280.
WithRec(slot, i, rec) ==
    [slot EXCEPT !.recs[i] = rec,
                 !.error = IF @ = Undefined /\ rec.stage = "failed" THEN rec.error ELSE @]

InitUtxo ==
    /\ cfAuthorizationCookie = Null
    /\ clientId = "id"
    /\ clientSecret = "secret"
    /\ calls = [t \in Tasks |-> NoCall]
    /\ conns = <<>>
    /\ query = NoQuery
    /\ now = 0
    /\ kupoTx = FALSE
    /\ poller = NoPoller

\* getUtxosByOutRef(outRefs): one fetch per distinct transaction hash.
CallGetUtxosByOutRef(outRefs) ==
    /\ query.op = "none"
    /\ LET hashes == queryHashes(outRefs)
           slots == [i \in DOMAIN hashes |-> Slot(hashes[i])]
       IN  query' = [op |-> "getUtxosByOutRef", arg |-> "", outRefs |-> outRefs,
                     slots |-> slots,
                     outcome |-> Settle("getUtxosByOutRef", outRefs, slots)]
    /\ UNCHANGED <<cfAuthorizationCookie, clientId, clientSecret, calls, conns, pollVars>>

\* getUtxoByUnit(unit): one fetch.
CallGetUtxoByUnit(unit) ==
    /\ query.op = "none"
    /\ query' = [op |-> "getUtxoByUnit", arg |-> unit, outRefs |-> <<>>,
                 slots |-> <<Slot(matchPattern(unit))>>, outcome |-> Pending]
    /\ UNCHANGED <<cfAuthorizationCookie, clientId, clientSecret, calls, conns, pollVars>>

\* getUtxos(address) and getUtxosWithUnit(address, unit): one fetch.
CallGetUtxos(address) ==
    /\ query.op = "none"
    /\ query' = [op |-> "getUtxos", arg |-> address, outRefs |-> <<>>,
                 slots |-> <<Slot(address)>>, outcome |-> Pending]
    /\ UNCHANGED <<cfAuthorizationCookie, clientId, clientSecret, calls, conns, pollVars>>

\* The answers Kupo can give to the fetch of slot s: for `*@txHash` some of
\* the unspent outputs of that transaction, else some of all of them.
Answers(s) ==
    IF query.op = "getUtxosByOutRef"
    THEN SubLists({n \in DOMAIN KupoMatches :
                      KupoMatches[n].transaction_id = query.slots[s].pattern}, MaxMatches)
    ELSE SubLists(DOMAIN KupoMatches, MaxMatches)

\* The Set-Cookie values of the responses to these fetches.
QuerySetCookieHeaders == {Undefined, Str(<<CFA, "a">>)}

\* The matches arrive: authenticatedFetch stores the cookie, res.json()
\* parses them and kupmiosUtxosToUtxos starts one async function per match.
MatchesResponse(s, setCookie, answer) ==
    /\ s \in DOMAIN query.slots
    /\ query.slots[s].state = "fetch"
    /\ answer \in Answers(s)
    /\ cfAuthorizationCookie' = CookieAfterResponse(cfAuthorizationCookie, setCookie)
    /\ query' = WithSlots([query.slots EXCEPT ![s] =
                    [@ EXCEPT !.state = "norm", !.matches = answer,
                               !.recs = kupmiosUtxosToUtxos(answer)]])
    /\ UNCHANGED <<clientId, clientSecret, calls, conns, pollVars>>

\* The response arrives but res.json() cannot parse it.
MatchesMalformed(s, setCookie) ==
    /\ s \in DOMAIN query.slots
    /\ query.slots[s].state = "fetch"
    /\ cfAuthorizationCookie' = CookieAfterResponse(cfAuthorizationCookie, setCookie)
    /\ query' = WithSlots([query.slots EXCEPT ![s] =
                    [@ EXCEPT !.state = "failed", !.error = SyntaxError]])
    /\ UNCHANGED <<clientId, clientSecret, calls, conns, pollVars>>

\* The fetch of the matches rejects.
MatchesFail(s) ==
    /\ s \in DOMAIN query.slots
    /\ query.slots[s].state = "fetch"
    /\ query' = WithSlots([query.slots EXCEPT ![s] =
                    [@ EXCEPT !.state = "failed", !.error = TransportError]])
    /\ UNCHANGED <<cfAuthorizationCookie, clientId, clientSecret, calls, conns, pollVars>>

Waiting(s, i, stage) ==
    /\ s \in DOMAIN query.slots
    /\ i \in DOMAIN query.slots[s].recs
    /\ query.slots[s].recs[i].stage = stage

\* The response to getDatum(utxo.datum_hash) of record i arrives.
DatumResponse(s, i, setCookie, body) ==
    /\ Waiting(s, i, "datum")
    /\ cfAuthorizationCookie' = CookieAfterResponse(cfAuthorizationCookie, setCookie)
    /\ LET rec == query.slots[s].recs[i]
           settled == getDatumSettle(rec.raw.datum_hash.s[1], body)
       IN  query' = WithSlots([query.slots EXCEPT ![s] =
                        WithRec(@, i, AfterDatum(rec, settled))])
    /\ UNCHANGED <<clientId, clientSecret, calls, conns, pollVars>>

\* The fetch of getDatum of record i rejects.
DatumFail(s, i) ==
    /\ Waiting(s, i, "datum")
    /\ query' = WithSlots([query.slots EXCEPT ![s] =
                    WithRec(@, i, AfterDatum(query.slots[s].recs[i], Rejected(TransportError)))])
    /\ UNCHANGED <<cfAuthorizationCookie, clientId, clientSecret, calls, conns, pollVars>>

\* The response to `GET /scripts/{script_hash}` of record i arrives.
ScriptResponse(s, i, setCookie, body) ==
    /\ Waiting(s, i, "script")
    /\ cfAuthorizationCookie' = CookieAfterResponse(cfAuthorizationCookie, setCookie)
    /\ query' = WithSlots([query.slots EXCEPT ![s] =
                    WithRec(@, i, AfterScript(query.slots[s].recs[i], scriptRef(body)))])
    /\ UNCHANGED <<clientId, clientSecret, calls, conns, pollVars>>

\* The script fetch of record i rejects.
ScriptFail(s, i) ==
    /\ Waiting(s, i, "script")
    /\ query' = WithSlots([query.slots EXCEPT ![s] =
                    WithRec(@, i, AfterScript(query.slots[s].recs[i], Rejected(TransportError)))])
    /\ UNCHANGED <<cfAuthorizationCookie, clientId, clientSecret, calls, conns, pollVars>>

OutRefLists ==
    UNION {[1..n -> OutRefs] : n \in 0..MaxOutRefs}

SlotIds == 1..Cardinality(TxHashes)
RecIds == 1..Len(KupoMatches)

NextUtxo ==
    \/ \E outRefs \in OutRefLists : CallGetUtxosByOutRef(outRefs)
    \/ \E unit \in Units : CallGetUtxoByUnit(unit)
    \/ \E address \in Addresses : CallGetUtxos(address)
    \/ \E s \in SlotIds, c \in QuerySetCookieHeaders :
          \/ \E answer \in SubLists(DOMAIN KupoMatches, MaxMatches) :
                MatchesResponse(s, c, answer)
          \/ MatchesMalformed(s, c)
    \/ \E s \in SlotIds : MatchesFail(s)
    \/ \E s \in SlotIds, i \in RecIds, c \in QuerySetCookieHeaders :
          \/ \E body \in DatumBodies : DatumResponse(s, i, c, body)
          \/ \E body \in ScriptBodies : ScriptResponse(s, i, c, body)
    \/ \E s \in SlotIds, i \in RecIds : DatumFail(s, i) \/ ScriptFail(s, i)

SpecUtxo == InitUtxo /\ [][NextUtxo]_vars

\* getUtxoByUnit alone, over every unit, up to the outcome of its fetch.
NextUnit ==
    \/ \E unit \in AllUnits : CallGetUtxoByUnit(unit)
    \/ MatchesFail(1)

SpecUnit == InitUtxo /\ [][NextUnit]_vars

\* ------------------------------------------------------------ awaitTx
\* checkInterval = 3000, line 239.
DefaultCheckInterval == 3000
\* setTimeout(() => res(1), 1000), line 247.
SettleDelay == 1000

CheckIntervals == {ShortInterval, DefaultCheckInterval}

\* One run of the interval callback of lines 241-250:
\*   "awaitHeaders" suspended at `await this.getAuthHeaders()`
\*   "awaitFetch"   the request is out
\*   "settling"     matches were seen at seenAt; waiting for the settle timeout
\*   "empty"        no match was seen: the callback returned
\*   "failed"       the fetch or res.json() rejected: the callback's promise
\*                  is rejected and nobody handles it
\*   "done"         res(true) was called
Poll(pc, seenAt) == [pc |-> pc, seenAt |-> seenAt]

\* What `GET /matches/*@{txHash}?unspent` answers, once parsed.
PollBody == IF kupoTx THEN Array(<<KupoMatches[1]>>) ELSE Array(<<>>)

\* Line 245 without the length test: an empty array is truthy.
IsConfirmed_AnyArray(body) == ~Falsy(body)

\* Line 245.
IsConfirmed(body) == ~Falsy(body) /\ Len(body.items) > 0

\* Line 247 left out: res(true) may run as soon as the matches are seen.
SettleDue_NoDelay(seenAt) == seenAt

\* The time at which the timeout of line 247 is due.
SettleDue(seenAt) == seenAt + SettleDelay

InitAwait ==
    /\ cfAuthorizationCookie = Null
    /\ clientId = "id"
    /\ clientSecret = "secret"
    /\ calls = [t \in Tasks |-> NoCall]
    /\ conns = <<>>
    /\ query = NoQuery
    /\ now = 0
    /\ kupoTx = FALSE
    /\ poller = NoPoller

awaitFrame == <<clientId, clientSecret, calls, conns, query>>

\* A timer callback and the microtasks it queues run before the event loop
\* takes its next task: while an interval callback stands at
\* `await this.getAuthHeaders()`, whose promise is already resolved, its
\* continuation is the only step of the poller that can run.
MicrotaskPending ==
    \E p \in DOMAIN poller.polls : poller.polls[p].pc = "awaitHeaders"

\* awaitTx(txHash, checkInterval): setInterval arms the timer.
CallAwaitTx(checkInterval) ==
    /\ poller.checkInterval = 0
    /\ poller' = [poller EXCEPT !.checkInterval = checkInterval, !.active = TRUE,
                                !.nextTick = now + checkInterval]
    /\ UNCHANGED <<cfAuthorizationCookie, now, kupoTx, awaitFrame>>

\* Line 241 with setTimeout in place of setInterval: the callback runs once.
IntervalTick_Once ==
    /\ ~MicrotaskPending
    /\ poller.active
    /\ now >= poller.nextTick
    /\ Len(poller.polls) < MaxPolls
    /\ poller' = [poller EXCEPT !.polls = Append(@, Poll("awaitHeaders", 0)),
                                !.active = FALSE]
    /\ UNCHANGED <<cfAuthorizationCookie, now, kupoTx, awaitFrame>>

\* The interval fires: the callback runs authenticatedFetch up to
\* `await this.getAuthHeaders()`.
IntervalTick ==
    /\ ~MicrotaskPending
    /\ poller.active
    /\ now >= poller.nextTick
    /\ Len(poller.polls) < MaxPolls
    /\ poller' = [poller EXCEPT !.polls = Append(@, Poll("awaitHeaders", 0)),
                                !.nextTick = now + poller.checkInterval]
    /\ UNCHANGED <<cfAuthorizationCookie, now, kupoTx, awaitFrame>>

\* authenticatedFetch resumes and calls fetch.
PollSend(p) ==
    /\ p \in DOMAIN poller.polls
    /\ poller.polls[p].pc = "awaitHeaders"
    /\ poller' = [poller EXCEPT !.polls[p].pc = "awaitFetch"]
    /\ UNCHANGED <<cfAuthorizationCookie, now, kupoTx, awaitFrame>>

\* Lines 242-249 without the clearInterval of line 246.
PollResponse_NoClear(p, setCookie) ==
    /\ ~MicrotaskPending
    /\ p \in DOMAIN poller.polls
    /\ poller.polls[p].pc = "awaitFetch"
    /\ cfAuthorizationCookie' = CookieAfterResponse(cfAuthorizationCookie, setCookie)
    /\ poller' = IF IsConfirmed(PollBody)
                 THEN [poller EXCEPT !.polls[p] = Poll("settling", now)]
                 ELSE [poller EXCEPT !.polls[p] = Poll("empty", 0)]
    /\ UNCHANGED <<now, kupoTx, awaitFrame>>

\* The matches arrive (lines 242-249): with a match the interval is
\* cleared and the settle timeout started, else the callback returns.
PollResponse(p, setCookie) ==
    /\ ~MicrotaskPending
    /\ p \in DOMAIN poller.polls
    /\ poller.polls[p].pc = "awaitFetch"
    /\ cfAuthorizationCookie' = CookieAfterResponse(cfAuthorizationCookie, setCookie)
    /\ poller' = IF IsConfirmed(PollBody)
                 THEN [poller EXCEPT !.polls[p] = Poll("settling", now),
                                     !.active = FALSE,
                                     !.clears = @ + 1]
                 ELSE [poller EXCEPT !.polls[p] = Poll("empty", 0)]
    /\ UNCHANGED <<now, kupoTx, awaitFrame>>

\* The fetch rejects or the body does not parse: the async callback's
\* promise is rejected, nothing handles it, and the interval goes on.
PollFail(p) ==
    /\ ~MicrotaskPending
    /\ p \in DOMAIN poller.polls
    /\ poller.polls[p].pc = "awaitFetch"
    /\ poller' = [poller EXCEPT !.polls[p] = Poll("failed", 0)]
    /\ UNCHANGED <<cfAuthorizationCookie, now, kupoTx, awaitFrame>>

\* The settle timeout fires and the callback calls res(true): the first
\* call resolves the promise, later ones change nothing.
SettleTimeout(p) ==
    /\ ~MicrotaskPending
    /\ p \in DOMAIN poller.polls
    /\ poller.polls[p].pc = "settling"
    /\ now >= SettleDue(poller.polls[p].seenAt)
    /\ poller' = [poller EXCEPT
                    !.polls[p].pc = "done",
                    !.promise = IF @.state = "pending" THEN Resolved(TRUE) ELSE @,
                    !.resolvedAt = IF poller.promise.state = "pending" THEN now ELSE @]
    /\ UNCHANGED <<cfAuthorizationCookie, now, kupoTx, awaitFrame>>

\* Time passes (the clock starts when awaitTx is called).
Advance ==
    /\ ~MicrotaskPending
    /\ poller.checkInterval # 0
    /\ now + TimeStep <= MaxTime
    /\ now' = now + TimeStep
    /\ UNCHANGED <<cfAuthorizationCookie, kupoTx, poller, awaitFrame>>

\* Kupo indexes the transaction: an output of it becomes visible as unspent.
TxIndexed ==
    /\ ~kupoTx
    /\ kupoTx' = TRUE
    /\ UNCHANGED <<cfAuthorizationCookie, now, poller, awaitFrame>>

\* The outputs of the transaction are spent (or rolled back).
TxSpent ==
    /\ kupoTx
    /\ kupoTx' = FALSE
    /\ UNCHANGED <<cfAuthorizationCookie, now, poller, awaitFrame>>

PollIds == 1..MaxPolls

NextAwait ==
    \/ \E checkInterval \in CheckIntervals : CallAwaitTx(checkInterval)
    \/ IntervalTick
    \/ \E p \in PollIds : PollSend(p)
    \/ \E p \in PollIds, c \in QuerySetCookieHeaders : PollResponse(p, c)
    \/ \E p \in PollIds : PollFail(p)
    \/ \E p \in PollIds : SettleTimeout(p)
    \/ Advance
    \/ TxIndexed
    \/ TxSpent

SpecAwait == InitAwait /\ [][NextAwait]_vars

\* ---------------------------------------------------------------------------
\* awaitTx without an end of time.  SpecAwait stops the clock at MaxTime and
\* the interval after MaxPolls callbacks; here the interval goes on for ever:
\* a callback that has returned is forgotten, so that MaxPolls bounds the
\* callbacks in flight, and time is kept relative to the clock, which stays
\* where it is while the due times of the timers move back until they are due.

\* A callback that saw no match has returned (line 245 false, line 249).
CallbackReturned(p) ==
    /\ ~MicrotaskPending
    /\ p \in DOMAIN poller.polls
    /\ poller.polls[p].pc = "empty"
    /\ poller' = [poller EXCEPT !.polls =
                     SubSeq(@, 1, p - 1) \o SubSeq(@, p + 1, Len(@))]
    /\ UNCHANGED <<cfAuthorizationCookie, now, kupoTx, awaitFrame>>

\* A due time, seen one step later from a clock that was set back by that
\* step; a due time that has passed stays passed and need not move further.
Shift(due) == IF due > now THEN due - TimeStep ELSE due

\* Time passes: the timers of lines 241 and 247 compare their due times with
\* the clock only.
Elapse ==
    /\ ~MicrotaskPending
    /\ poller.checkInterval # 0
    /\ poller' = [poller EXCEPT
                    !.nextTick = IF poller.active THEN Shift(@) ELSE @,
                    !.polls = [p \in DOMAIN @ |->
                                  IF @[p].pc = "settling"
                                  THEN [@[p] EXCEPT !.seenAt =
                                           Shift(SettleDue(@)) - (SettleDue(@) - @)]
                                  ELSE @[p]]]
    /\ UNCHANGED <<cfAuthorizationCookie, now, kupoTx, awaitFrame>>

NextAwaitLive ==
    \/ \E checkInterval \in CheckIntervals : CallAwaitTx(checkInterval)
    \/ IntervalTick
    \/ \E p \in PollIds : PollSend(p)
    \/ \E p \in PollIds : PollResponse(p, Undefined)
    \/ \E p \in PollIds : CallbackReturned(p)
    \/ \E p \in PollIds : SettleTimeout(p)
    \/ Elapse
    \/ TxIndexed
    \/ TxSpent

\* The timers fire when due, every request is answered with a match set, every
\* continuation runs, and time passes.
FairAwait ==
    /\ WF_vars(IntervalTick)
    /\ WF_vars(Elapse)
    /\ \A p \in PollIds :
          /\ WF_vars(PollSend(p))
          /\ WF_vars(PollResponse(p, Undefined))
          /\ WF_vars(CallbackReturned(p))
          /\ WF_vars(SettleTimeout(p))

SpecAwaitLive == InitAwait /\ [][NextAwaitLive]_vars /\ FairAwait

\* ------------------------------------------------------------ claims
BridgeCall(t) == calls[t].op \in BridgeOps
Settled(t) == calls[t].outcome.state # "pending"

\* C1: once cfAuthorizationCookie is stored, every HTTP request sent by
\* authenticatedFetch and every bridge connection opened by rpc afterwards
\* carries the Cookie header and neither CF-Access-Client-Id nor
\* CF-Access-Client-Secret.
C1_SessionPrecedence ==
    [][\A t \in Tasks :
          (/\ cfAuthorizationCookie # Null
           /\ calls[t].pc = "awaitHeaders"
           /\ calls'[t].pc \in {"awaitFetch", "awaitOpen"})
          => HeaderNames(calls[t].headers) = {"Cookie"}]_vars

\* C6: when the first message of a node-bridge call carries an error field
\* and no result, the call fails with the backend's error payload, unchanged.
C6_RpcErrorPropagated ==
    \A t \in Tasks :
        (BridgeCall(t) /\ calls[t].pc = "done"
            /\ calls[t].body = Json(Undefined, ErrorPayload))
        => calls[t].outcome = Rejected(ErrorPayload)

\* C7: a transport failure of the request or connection of a call settles
\* the call as a failure carrying that transport failure. (A call whose
\* connection failed has no step left to take.)
C7_TransportFailurePropagated ==
    \A t \in Tasks :
        (BridgeCall(t) /\ calls[t].client # 0
            /\ conns[calls[t].client].state = "failed")
        => calls[t].outcome = Rejected(TransportError)

\* C8: once a node-bridge call has settled on its first message, its
\* connection is no longer open, whatever the outcome of handling it.
C8_ConnectionClosedAfterSettle ==
    \A t \in Tasks :
        (BridgeCall(t) /\ Settled(t)) => conns[calls[t].client].state = "closed"

\* C9: getDatum fails with an error naming the requested hash when the
\* response is absent or carries no datum body, and resolves only when the
\* response carries a datum, with exactly that datum.
HasDatumBody(body) == body.kind = "object" /\ ~Falsy(body.datum)
NamesHash(error, datumHash) ==
    /\ error.kind = "Error"
    /\ \E i \in DOMAIN error.message : error.message[i] = datumHash

C9_GetDatumNotFound ==
    \A t \in Tasks :
        (calls[t].op = "getDatum" /\ calls[t].pc = "done"
            /\ calls[t].body \notin {Undefined, Malformed})
        => IF HasDatumBody(calls[t].body)
           THEN calls[t].outcome = Resolved(calls[t].body.datum)
           ELSE /\ calls[t].outcome.state = "rejected"
                /\ NamesHash(calls[t].outcome.value, calls[t].arg)

\* C9 witness: a getDatum call whose response carried an object without a
\* datum has failed, and another whose response carried a datum has resolved.
C9_Witness ==
    \E t, u \in Tasks :
        /\ calls[t].op = "getDatum" /\ calls[t].body = Object(Undefined)
        /\ calls[t].outcome.state = "rejected"
        /\ calls[u].op = "getDatum" /\ calls[u].body = Object(Str(<<"d1">>))
        /\ calls[u].outcome.state = "resolved"

\* C10: getDelegation succeeds with poolId null and rewards 0 when the
\* response has no entry (result absent, null or an empty mapping).
NoEntry(msg) ==
    /\ msg.kind = "json"
    /\ msg.error = Undefined
    /\ (msg.result \in {Null, Undefined} \/ msg.result = Summaries(<<>>))

C10_NoEntryDelegation ==
    \A t \in Tasks :
        (calls[t].op = "getDelegation" /\ calls[t].pc = "done" /\ NoEntry(calls[t].body))
        => calls[t].outcome =
              Resolved([kind |-> "Delegation", poolId |-> Null, rewards |-> 0])

\* ---- claims about UTxO queries (SpecUtxo)
Range(f) == {f[i] : i \in DOMAIN f}
Pair(utxo) == <<utxo.txHash, utxo.outputIndex>>
RawPair(raw) == <<raw.transaction_id, raw.output_index>>
\* The matches Kupo reported to the query, over all its fetches.
Reported ==
    UNION {{query.slots[s].recs[i].raw : i \in DOMAIN query.slots[s].recs} :
              s \in DOMAIN query.slots}
Returned == query.outcome.value.items

ByOutRefResolved == query.op = "getUtxosByOutRef" /\ query.outcome.state = "resolved"

\* C2: getUtxosByOutRef returns exactly the reported outputs whose
\* (txHash, outputIndex) pair is among the requested references: no extras,
\* none missing and none twice.
C2_ByOutRefExact ==
    ByOutRefResolved =>
        /\ \A k \in DOMAIN Returned :
              /\ Pair(Returned[k]) \in Range(query.outRefs)
              /\ \E raw \in Reported : RawPair(raw) = Pair(Returned[k])
        /\ \A raw \in Reported :
              RawPair(raw) \in Range(query.outRefs)
                  => \E k \in DOMAIN Returned : Pair(Returned[k]) = RawPair(raw)
        /\ \A k, l \in DOMAIN Returned : k # l => Pair(Returned[k]) # Pair(Returned[l])

\* C2 witness: two references sharing a transaction hash were requested, an
\* output was returned and a reported output was filtered out.
C2_Witness ==
    /\ ByOutRefResolved
    /\ Len(query.outRefs) = 2
    /\ query.outRefs[1][1] = query.outRefs[2][1]
    /\ Len(Returned) >= 1
    /\ \E raw \in Reported : RawPair(raw) \notin Range(query.outRefs)

ByUnitAnswered == query.op = "getUtxoByUnit" /\ query.slots[1].state = "norm"
ByUnitRecs == query.slots[1].recs

\* C3 as stated: with exactly one matching record the call succeeds and
\* returns that record normalized; with two or more it fails with the
\* NFT / one-address error.
C3_SingleHolder ==
    (ByUnitAnswered /\ query.outcome.state # "pending") =>
        /\ Len(ByUnitRecs) = 1 => query.outcome = Resolved(ByUnitRecs[1].utxo)
        /\ Len(ByUnitRecs) >= 2 => query.outcome = Rejected(NftError)

\* C3 amended: with exactly one matching record the call returns that
\* record normalized once its datum and script fetches have succeeded, and
\* fails with the error of the fetch that failed; with two or more records
\* it never resolves: it fails with the NFT / one-address error when all of
\* them were normalized, else with the error of the first fetch that failed.
C3_SingleHolderNormalized ==
    ByUnitAnswered =>
        /\ (Len(ByUnitRecs) = 1 /\ ByUnitRecs[1].stage = "done") =>
              /\ query.outcome = Resolved(ByUnitRecs[1].utxo)
              /\ Pair(query.outcome.value) = RawPair(ByUnitRecs[1].raw)
        /\ (Len(ByUnitRecs) = 1 /\ ByUnitRecs[1].stage = "failed") =>
              query.outcome = Rejected(ByUnitRecs[1].error)
        /\ Len(ByUnitRecs) >= 2 =>
              /\ query.outcome.state # "resolved"
              /\ AllDone(ByUnitRecs) => query.outcome = Rejected(NftError)
              /\ (\E i \in DOMAIN ByUnitRecs : ByUnitRecs[i].stage = "failed")
                    => /\ query.outcome.state = "rejected"
                       /\ \E i \in DOMAIN ByUnitRecs : query.outcome.value = ByUnitRecs[i].error

\* C3 witness: two records matched, both were normalized and the call
\* failed with the NFT / one-address error.
C3_Witness ==
    /\ ByUnitAnswered
    /\ Len(ByUnitRecs) = 2
    /\ AllDone(ByUnitRecs)
    /\ \E i \in DOMAIN ByUnitRecs : ByUnitRecs[i].raw.datum_type = Str(<<"inline">>)
    /\ query.outcome = Rejected(NftError)

\* C5: a produced UTxO has datum populated and datumHash null for an inline
\* datum, datumHash populated and datum null for a datum hash, both null
\* without datum type, and never both populated.
Produced == UNION {Range(query.slots[s].recs) : s \in DOMAIN query.slots}

C5_DatumNormalization ==
    \A rec \in Produced :
        rec.stage = "done" =>
            /\ rec.raw.datum_type = Str(<<"inline">>)
                  => ~Falsy(rec.utxo.datum) /\ rec.utxo.datumHash = Null
            /\ rec.raw.datum_type = Str(<<"hash">>)
                  => rec.utxo.datumHash = rec.raw.datum_hash /\ ~Falsy(rec.utxo.datumHash)
                        /\ rec.utxo.datum = Null
            /\ rec.raw.datum_type = Null
                  => rec.utxo.datumHash = Null /\ rec.utxo.datum = Null
            /\ ~(~Falsy(rec.utxo.datum) /\ ~Falsy(rec.utxo.datumHash))

\* C5 witness: one answer whose inline-datum record and datum-hash record
\* have both been normalized.
C5_Witness ==
    \E s \in DOMAIN query.slots :
        /\ AllDone(query.slots[s].recs)
        /\ \E i, j \in DOMAIN query.slots[s].recs :
              /\ query.slots[s].recs[i].raw.datum_type = Str(<<"inline">>)
              /\ query.slots[s].recs[j].raw.datum_type = Str(<<"hash">>)

\* ---- claims about awaitTx (SpecAwait)
SawMatches(p) == poller.polls[p].pc \in {"settling", "done"}
AwaitResolved == poller.promise.state = "resolved"

\* C4: awaitTx resolves, with true, only after some poll saw a non-empty
\* match set and no earlier than one settle delay after that poll saw it; when
\* the first poll saw nothing and the second is the one that saw a match, no
\* earlier than one settle delay after the second poll.
C4_ResolvesAfterSettleDelay ==
    AwaitResolved =>
        /\ poller.promise.value = TRUE
        /\ \E p \in DOMAIN poller.polls :
              /\ poller.polls[p].pc = "done"
              /\ poller.resolvedAt >= poller.polls[p].seenAt + SettleDelay
        /\ (/\ Len(poller.polls) >= 2
            /\ poller.polls[1].pc = "empty"
            /\ \A p \in DOMAIN poller.polls : SawMatches(p) => p = 2)
              => /\ poller.polls[2].pc = "done"
                 /\ poller.resolvedAt >= poller.polls[2].seenAt + SettleDelay
                 /\ poller.resolvedAt > poller.polls[2].seenAt

\* C4 witness: with the default interval the first poll saw nothing, the
\* second saw a match and the promise resolved one settle delay later.
C4_Witness ==
    /\ AwaitResolved
    /\ poller.checkInterval = DefaultCheckInterval
    /\ Len(poller.polls) = 2
    /\ poller.polls[1].pc = "empty"
    /\ poller.polls[2].pc = "done"
    /\ poller.polls[2].seenAt >= 2 * DefaultCheckInterval
    /\ poller.resolvedAt = poller.polls[2].seenAt + SettleDelay

\* ---- claims about the exact-unit pattern (SpecUnit)
ByUnit == query.op = "getUtxoByUnit"
UnitPattern == query.slots[1].pattern
PolicyOf(unit) == SubSeq(unit, 1, PolicyIdLength)
NameOf(unit) == SubSeq(unit, PolicyIdLength + 1, Len(unit))

\* C11 as stated: for every unit, also one with an empty asset name, the
\* pattern of getUtxoByUnit is the policy id, "." and the asset name, and
\* removing the separator gives back the unit.
C11_PatternRoundTrip ==
    ByUnit =>
        /\ UnitPattern = PolicyOf(query.arg) \o <<".">> \o NameOf(query.arg)
        /\ RemoveFirstDot(UnitPattern) = query.arg

\* C11 amended: for a unit with a non-empty asset name the pattern is the
\* policy id, "." and the asset name, and removing the separator gives back
\* the unit; for a unit that is a policy id only the pattern is the policy
\* id, "." and the wildcard "*".
C11_PatternRoundTripNamed ==
    ByUnit =>
        IF NameOf(query.arg) # <<>>
        THEN /\ UnitPattern = PolicyOf(query.arg) \o <<".">> \o NameOf(query.arg)
             /\ RemoveFirstDot(UnitPattern) = query.arg
        ELSE UnitPattern = query.arg \o <<".", "*">>

\* C11 witness: a query was made for a unit with a two-digit asset name.
C11_Witness ==
    /\ ByUnit
    /\ Len(NameOf(query.arg)) = 2
    /\ UnitPattern[PolicyIdLength + 1] = "."

\* C12: once a poll of awaitTx has seen a non-empty match set, no interval
\* callback starts and no fetch is issued for that call any more, whatever
\* the interval and the latency of the responses.
SeenMatches == \E p \in DOMAIN poller.polls : SawMatches(p)
Issued == {p \in DOMAIN poller.polls : poller.polls[p].pc # "awaitHeaders"}

C12_NoQueryAfterMatches ==
    [][SeenMatches =>
          /\ Len(poller.polls') = Len(poller.polls)
          /\ Issued' = Issued]_vars

\* C12 witness: with the short interval a poll has seen matches while a later
\* poll is still in flight and the next tick of the interval is overdue.
C12_Witness ==
    /\ poller.checkInterval = ShortInterval
    /\ \E p, q \in DOMAIN poller.polls :
          /\ p < q
          /\ SawMatches(p)
          /\ poller.polls[q].pc = "awaitFetch"
    /\ Len(poller.polls) < MaxPolls
    /\ now >= poller.nextTick + poller.checkInterval

\* C13: in every execution of awaitTx the interval is cleared at most once and
\* at most one poll performs the settle delay followed by the resolve, also
\* when several polls in flight see a non-empty match set.
C13_CancelledOnce ==
    /\ poller.clears <= 1
    /\ Cardinality({p \in DOMAIN poller.polls : SawMatches(p)}) <= 1

\* C14: if from some time on Kupo reports an unspent output of the
\* transaction, and every poll is answered, then an awaitTx that was called
\* eventually resolves with true (timers and callbacks scheduled fairly).
AwaitCalled == poller.checkInterval # 0

C14_EventuallyConfirmed ==
    (<>[]kupoTx) =>
        (AwaitCalled ~> (AwaitResolved /\ poller.promise.value = TRUE))

\* C14 witness: Kupo reports the output, a poll saw it, cleared the interval
\* and called res(true) after its settle delay, and the promise is resolved.
C14_Witness ==
    /\ AwaitResolved
    /\ kupoTx
    /\ ~poller.active
    /\ \E p \in DOMAIN poller.polls : poller.polls[p].pc = "done"

\* C15: the promise of awaitTx never rejects; and as long as Kupo reports no
\* output of the transaction, so that every poll returns an empty match set,
\* the promise stays pending, the interval stays armed and queries are issued
\* again and again, one for each tick of the interval and no tick before one
\* interval after the tick before.
OnePerInterval ==
    /\ Len(poller.polls') > Len(poller.polls) =>
          /\ Len(poller.polls') = Len(poller.polls) + 1
          /\ now >= poller.nextTick
          /\ poller.nextTick' = now + poller.checkInterval
    /\ Cardinality(Issued') > Cardinality(Issued) =>
          /\ Cardinality(Issued') = Cardinality(Issued) + 1
          /\ Len(poller.polls') = Len(poller.polls)

C15_NoFailureNoTimeout ==
    /\ [](poller.promise.state # "rejected")
    /\ [][OnePerInterval]_vars
    /\ ([]~kupoTx) =>
          /\ [](poller.promise.state = "pending")
          /\ [](AwaitCalled => poller.active)
          /\ (<>AwaitCalled) => []<><<\E p \in PollIds : PollSend(p)>>_vars

\* C15 witness: Kupo reports nothing, a poll has returned an empty match set,
\* the promise is pending, the interval is armed and the query of the next
\* tick is out.
C15_Witness ==
    /\ ~kupoTx
    /\ poller.promise.state = "pending"
    /\ poller.active
    /\ \E p, q \in DOMAIN poller.polls :
          /\ p < q
          /\ poller.polls[p].pc = "empty"
          /\ poller.polls[q].pc = "awaitFetch"

\* C16: kupmiosUtxosToUtxos gives, for the n match records of a response, n
\* UTxOs of which the i-th has the transaction id and the output index of the
\* i-th record: at every moment for the records in progress, and in the list
\* it returns, whatever the order in which the datum and script fetches of the
\* records completed.
BuiltFrom(utxo, raw) ==
    /\ utxo.txHash = raw.transaction_id
    /\ utxo.outputIndex = ParseInt(raw.output_index)

C16_OrderPreserved ==
    /\ \A s \in DOMAIN query.slots :
          query.slots[s].state = "norm" =>
              LET matches == query.slots[s].matches
                  recs == query.slots[s].recs
              IN  /\ Len(recs) = Len(matches)
                  /\ \A i \in DOMAIN matches : BuiltFrom(recs[i].utxo, matches[i])
                  /\ AllDone(recs) =>
                        /\ Len(Utxos(recs)) = Len(matches)
                        /\ \A i \in DOMAIN matches : BuiltFrom(Utxos(recs)[i], matches[i])
    /\ (query.op = "getUtxos" /\ query.outcome.state = "resolved") =>
          /\ Len(Returned) = Len(query.slots[1].matches)
          /\ \A i \in DOMAIN Returned : BuiltFrom(Returned[i], query.slots[1].matches[i])

\* C16 witness: getUtxos resolved with the UTxOs of two different records that
\* both needed a secondary fetch (the two fetches complete in either order).
C16_Witness ==
    /\ query.op = "getUtxos"
    /\ query.outcome.state = "resolved"
    /\ Len(Returned) = 2
    /\ Returned[1].txHash # Returned[2].txHash
    /\ ~Falsy(Returned[1].datum)
    /\ ~Falsy(Returned[2].scriptRef)

\* C17: cfAuthorizationCookie changes only in a step that processes an HTTP
\* response whose Set-Cookie header holds a CF_Authorization value; preparing
\* headers, sending a request, opening a bridge connection, sending or
\* receiving a bridge message, a failed fetch, and a response without
\* Set-Cookie or without a CF_Authorization value in it leave it as it is; and
\* no step changes clientId or clientSecret.
CarriesSession(setCookie) ==
    /\ setCookie # Undefined
    /\ \E i \in 1..(Len(setCookie.s) - 1) :
          setCookie.s[i] = CFA /\ setCookie.s[i + 1] # ";"

C17_SessionFrame ==
    [][/\ cfAuthorizationCookie' # cfAuthorizationCookie =>
             \E t \in Tasks, setCookie \in SetCookieHeaders, body \in DatumBodies :
                 /\ FetchResponse(t, setCookie, body)
                 /\ CarriesSession(setCookie)
       /\ clientId' = clientId
       /\ clientSecret' = clientSecret]_vars

\* C17 witness: a response stored the cookie "b" (from a Set-Cookie header
\* with attributes), and a bridge call ran to its end with the cookie in place.
C17_Witness ==
    /\ cfAuthorizationCookie = Str(<<"b">>)
    /\ \E t \in Tasks : BridgeCall(t) /\ calls[t].pc = "done"
    /\ \E t \in Tasks : calls[t].op = "getDatum" /\ calls[t].pc = "done"

\* C18: every node-bridge call that has passed `new WebSocket` has a
\* connection of its own, no two calls have the same one, nothing is sent on a
\* connection before it has opened, and on a connection that has opened
\* exactly one request was sent: so at most one request is outstanding on any
\* connection.
HasSocket(t) == BridgeCall(t) /\ calls[t].pc \in {"awaitOpen", "awaitMessage", "done"}
Outstanding(c) ==
    IF \E t \in Tasks : HasSocket(t) /\ calls[t].client = c /\ calls[t].pc = "awaitMessage"
    THEN conns[c].sent
    ELSE 0

C18_OneRequestPerConnection ==
    /\ \A t \in Tasks :
          HasSocket(t) =>
              /\ calls[t].client \in DOMAIN conns
              /\ conns[calls[t].client].owner = t
    /\ \A t, u \in Tasks :
          (HasSocket(t) /\ HasSocket(u) /\ t # u) => calls[t].client # calls[u].client
    /\ Len(conns) = Cardinality({t \in Tasks : HasSocket(t)})
    /\ \A c \in DOMAIN conns :
          /\ conns[c].sent <= 1
          /\ conns[c].state = "connecting" => conns[c].sent = 0
          /\ conns[c].state \in {"open", "closed"} => conns[c].sent = 1
          /\ Outstanding(c) <= 1

\* C18 witness: two bridge calls are waiting for their message at once, each
\* on its own open connection with its one request sent.
C18_Witness ==
    \E t, u \in Tasks :
        /\ t # u
        /\ HasSocket(t) /\ calls[t].pc = "awaitMessage"
        /\ HasSocket(u) /\ calls[u].pc = "awaitMessage"
        /\ conns[calls[t].client].state = "open"
        /\ conns[calls[u].client].state = "open"
        /\ Outstanding(calls[t].client) = 1
        /\ Outstanding(calls[u].client) = 1

\* C19: in every UTxO query, as soon as the datum or script fetch of one
\* record has failed the query is rejected, with the error of a fetch of that
\* query that failed (that one's when it is the only one), and it never
\* resolves; a query that resolves has every record of every response
\* normalised, and an inline datum in what it returns is never a default.
FetchFailed(rec) == rec.error # Undefined
FailedFetches == {rec \in Produced : FetchFailed(rec)}
QueryErrors ==
    {rec.error : rec \in FailedFetches}
        \cup {query.slots[s].error : s \in {n \in DOMAIN query.slots :
                                               query.slots[n].state = "failed"}}

C19_AllOrNothing ==
    /\ FailedFetches # {} =>
          /\ query.outcome.state = "rejected"
          /\ query.outcome.value \in QueryErrors
    /\ query.outcome.state = "resolved" =>
          /\ \A rec \in Produced :
                /\ rec.stage = "done"
                /\ rec.raw.datum_type = Str(<<"inline">>) => ~Falsy(rec.utxo.datum)
          /\ query.op \in {"getUtxos", "getUtxosByOutRef"} =>
                \A i \in DOMAIN Returned :
                    \E rec \in Produced : rec.stage = "done" /\ rec.utxo = Returned[i]
          /\ query.op = "getUtxos" => Len(Returned) = Len(query.slots[1].matches)

\* C19 witness: of two records of one response the script of one was fetched
\* and the datum of the other was not found: the query is rejected with the
\* error of getDatum.
C19_Witness ==
    /\ query.outcome = Rejected(NoDatumError("dh1"))
    /\ \E s \in DOMAIN query.slots :
          /\ Len(query.slots[s].recs) = 2
          /\ \E i, j \in DOMAIN query.slots[s].recs :
                /\ query.slots[s].recs[i].stage = "done"
                /\ ~Falsy(query.slots[s].recs[i].utxo.scriptRef)
                /\ query.slots[s].recs[j].stage = "failed"
                /\ query.slots[s].recs[j].error = NoDatumError("dh1")

\* C20: when the matches of getUtxoByUnit are an empty list the call resolves
\* with undefined; and the call fails with the NFT / one-address error only
\* when there are two or more matches.
C20_NoHolder ==
    ByUnitAnswered =>
        /\ query.slots[1].matches = <<>> => query.outcome = Resolved(Undefined)
        /\ query.outcome = Rejected(NftError) => Len(query.slots[1].matches) >= 2
        /\ (Len(query.slots[1].matches) = 1 /\ query.outcome.state = "rejected")
              => query.outcome.value \in QueryErrors

\* C20 witness: the indexer answered getUtxoByUnit with no match and the call
\* resolved with undefined.
C20_Witness ==
    /\ ByUnitAnswered
    /\ query.slots[1].matches = <<>>
    /\ query.outcome.state = "resolved"
    /\ query.outcome.value = Undefined
====
